---- MODULE Spec2Model ----
(***************************************************************************)
(* Model of tortoise/transactions.py: the per-task transaction stacks kept *)
(* in current_transaction_map, the resolution of the current connection,   *)
(* and the transaction scope opened by in_transaction / atomic.            *)
(*                                                                         *)
(* One step of the model is the code a task runs between two suspension    *)
(* points (begin, the unit of work, commit, rollback).  get_connection,    *)
(* push_transaction and pop_transaction never suspend.                     *)
(***************************************************************************)
EXTENDS Integers, Sequences, FiniteSets, TLC

(* ------------------------------------------------------------------ *)
(* Bounds and input domains                                           *)
(* ------------------------------------------------------------------ *)

\* most atomic calls open at the same time, over all tasks
MaxOpen == 2

\* the most keys left with an empty stack at a time
MaxEmpty == 1

\* logical tasks of the event loop
Tasks == {"t1", "t2"}

\* values id(task) can take; live tasks have distinct ids
Addrs == {3, 5, 13}

\* connection names that may be registered in Tortoise._connections
Names == {"a", "a1"}

\* a falsy connection_name (None or ""): `not connection_name` is true
Omitted == ""

NameArgs == Names \cup {Omitted}

\* failures a unit of work raises: its own, or its cancellation while it is
\* suspended
WorkFailures == {"WorkFailure", "CancelledError"}

\* failures of begin(), commit() and rollback(): an error of the handle, or
\* the cancellation of the task while it is suspended in the call
HandleFailures == {"TransactionFailure", "CancelledError"}

NoHandle == [kind |-> "none"]

\* no scope object is waiting to be entered
NoScope == [kind |-> "none"]

\* what a unit of work can return
Results == {"r1", "r2"}

VARIABLES
    connections,              \* Tortoise._connections: the registered names
    current_transaction_map,  \* key -> deque of handles
    task_id,                  \* id(task) of each live task, 0 when not alive
    frames,                   \* per task: the open atomic calls, outermost first
    delivered,                \* what the step just taken handed to its caller
    held                      \* a scope object in_transaction() returned that
                              \* has not been entered yet

vars == <<connections, current_transaction_map, task_id,
          frames, delivered, held>>

(* ------------------------------------------------------------------ *)
(* Pure helpers                                                       *)
(* ------------------------------------------------------------------ *)

Digit == <<"0", "1", "2", "3", "4", "5", "6", "7", "8", "9">>

\* str(n) for a non-negative integer: its decimal digits
RECURSIVE Str(_)
Str(n) == IF n < 10 THEN Digit[n + 1]
          ELSE Str(n \div 10) \o Digit[(n % 10) + 1]

\* key = connection_name + str(id(asyncio.current_task()))
Key(connection_name, id) == connection_name \o Str(id)

\* Tortoise._connections[name]
BaseConnection(name) == [kind |-> "base", name |-> name]

\* the handle begin() returns to task `by` for its scope at nesting `level`;
\* it keeps the connection_name of the connection it was begun on
TransactionHandle(name, by, level) ==
    [kind |-> "txn", name |-> name, by |-> by, level |-> level]

\* collections.defaultdict(lambda: collections.deque()): reading a missing
\* key inserts an empty deque for it
GetItem(map, key) ==
    IF key \in DOMAIN map THEN map
    ELSE [k \in DOMAIN map \cup {key} |-> IF k = key THEN << >> ELSE map[k]]

\* dict.pop(key)
DelItem(map, key) == [k \in DOMAIN map \ {key} |-> map[k]]

Last(s) == s[Len(s)]

Front(s) == SubSeq(s, 1, Len(s) - 1)

\* the test with `< 1` in place of `!= 1`
AmbiguousOnlyWhenEmpty(connection_name) ==
    connection_name = Omitted /\ Cardinality(connections) < 1

\* `not connection_name and len(Tortoise._connections) != 1`
Ambiguous(connection_name) ==
    connection_name = Omitted /\ Cardinality(connections) # 1

\* connection_name after the second `if not connection_name:`; the first key
\* of a registry that holds exactly one name
InferName(connection_name) ==
    IF connection_name = Omitted
    THEN CHOOSE n \in connections : TRUE
    ELSE connection_name

\* `key in current_transaction_map and current_transaction_map[key]`
HasStack(map, key) ==
    /\ key \in DOMAIN map
    /\ map[key] # << >>

\* the end of get_connection, in a running loop: the top of the stack of the
\* task's key, else the base connection
TopOrBase(map, name, id) ==
    IF HasStack(map, Key(name, id))
    THEN Last(map[Key(name, id)])
    ELSE BaseConnection(name)

\* the loop test answering True whatever the loop does
LoopIdleNever(running) == FALSE

\* `not asyncio.get_event_loop().is_running()`
LoopIdle(running) == ~running

\* the stack test reading the stack without asking first whether the key is
\* in the map
StackReadUnguarded(map, key) == GetItem(map, key)

\* what the stack test does to the map: `key in current_transaction_map` looks
\* up without inserting, and only a key that is present is then read
StackRead(map, key) ==
    IF key \in DOMAIN map THEN GetItem(map, key) ELSE map

\* the map after get_connection(connection_name) has run on `map`
get_connection_map(map, connection_name, id, running) ==
    IF Ambiguous(connection_name) THEN map
    ELSE IF InferName(connection_name) \notin connections THEN map
    ELSE IF LoopIdle(running) THEN map
    ELSE StackRead(map, Key(InferName(connection_name), id))

\* get_connection(connection_name) called by the task whose id is `id`;
\* `running` is what asyncio.get_event_loop().is_running() answers (the id is
\* not read when it answers False)
get_connection(connection_name, id, running) ==
    IF Ambiguous(connection_name)
    THEN [err |-> "ParamsError", names |-> connections, conn |-> NoHandle]
    ELSE LET name == InferName(connection_name)
         IN  IF name \notin connections
             THEN [err |-> "KeyError", names |-> {}, conn |-> NoHandle]
             ELSE IF LoopIdle(running)
             THEN [err |-> "none", names |-> {}, conn |-> BaseConnection(name)]
             ELSE [err |-> "none", names |-> {},
                   conn |-> TopOrBase(current_transaction_map, name, id)]

\* push_transaction(connection_name, connection) run by the task with id `id`:
\* the map afterwards
push_transaction(map, connection_name, id, connection) ==
    LET key == Key(connection_name, id)
        m1  == GetItem(map, key)
    IN  [m1 EXCEPT ![key] = Append(@, connection)]

\* pop_transaction without its clean-up
PopCleanupSkipped(map, key) == GetItem(map, key)

\* the clean-up at the end of pop_transaction
PopCleanup(map, key) ==
    LET m2 == GetItem(map, key)
    IN  IF m2[key] = << >> THEN DelItem(m2, key) ELSE m2

\* pop_transaction(connection_name) run by the task with id `id`: the map
\* afterwards and the error raised, if any (deque.pop() of an empty deque
\* raises IndexError after the defaultdict has inserted the key)
pop_transaction(map, connection_name, id) ==
    LET key == Key(connection_name, id)
        m1  == GetItem(map, key)
    IN  IF m1[key] = << >>
        THEN [map |-> m1, err |-> "IndexError"]
        ELSE [map |-> PopCleanup([m1 EXCEPT ![key] = Front(@)], key),
              err |-> "none"]

(* ------------------------------------------------------------------ *)
(* State                                                              *)
(* ------------------------------------------------------------------ *)

Alive(t) == task_id[t] # 0

LiveIds == {task_id[t] : t \in {u \in Tasks : Alive(u)}}

Depth(map, key) == IF key \in DOMAIN map THEN Len(map[key]) ELSE 0

\* the number of atomic calls that are open, over all tasks
RECURSIVE CountOpen(_)
CountOpen(ts) ==
    IF ts = {} THEN 0
    ELSE LET t == CHOOSE u \in ts : TRUE
         IN  Len(frames[t]) + CountOpen(ts \ {t})

\* the scopes in being: the open atomic calls and the scope object kept
OpenCalls == CountOpen(Tasks) + (IF held = NoScope THEN 0 ELSE 1)

\* the step handed nothing to a caller
Nothing ==
    [task |-> "none", op |-> "none", exc |-> "none", names |-> {},
     result |-> "none"]

Init ==
    /\ connections \in SUBSET Names
    /\ current_transaction_map = << >>
    /\ task_id = [t \in Tasks |-> 0]
    /\ frames = [t \in Tasks |-> << >>]
    /\ delivered = Nothing
    /\ held = NoScope

(* ------------------------------------------------------------------ *)
(* The event loop and its tasks                                       *)
(* ------------------------------------------------------------------ *)

\* loop.create_task: the new task object gets an id no live task has
CreateTask(t) ==
    /\ ~Alive(t)
    /\ \E a \in Addrs \ LiveIds : task_id' = [task_id EXCEPT ![t] = a]
    /\ delivered' = Nothing
    /\ UNCHANGED <<held, connections, current_transaction_map, frames>>

\* the task's coroutine has returned and the task object is freed
FinishTask(t) ==
    /\ Alive(t)
    /\ frames[t] = << >>
    /\ task_id' = [task_id EXCEPT ![t] = 0]
    /\ delivered' = Nothing
    /\ UNCHANGED <<held, connections, current_transaction_map, frames>>

\* the task is running code from which an atomic-wrapped unit can be called
CanRun(t) ==
    /\ Alive(t)
    /\ IF frames[t] = << >> THEN TRUE ELSE Last(frames[t]).phase = "body"

InPhase(t, phase) ==
    /\ Alive(t)
    /\ frames[t] # << >>
    /\ Last(frames[t]).phase = phase

SetTop(t, f) == [frames EXCEPT ![t] = Append(Front(@), f)]

(* ------------------------------------------------------------------ *)
(* atomic(connection_name)(func)(...)                                 *)
(* ------------------------------------------------------------------ *)

\* wrapped(): in_transaction(connection_name) resolves the enclosing
\* connection; entering the scope then awaits begin() on it
Call(t, arg) ==
    /\ CanRun(t)
    /\ OpenCalls < MaxOpen
    /\ LET r == get_connection(arg, task_id[t], TRUE)
       IN  IF r.err # "none"
           THEN /\ delivered' = [task |-> t, op |-> "resolve", exc |-> r.err,
                                 names |-> r.names, result |-> "none"]
                /\ UNCHANGED frames
           ELSE /\ frames' = [frames EXCEPT ![t] = Append(@,
                       [arg    |-> arg,
                        asked  |-> InferName(arg),
                        name   |-> r.conn.name,
                        conn   |-> r.conn,
                        handle |-> NoHandle,
                        phase  |-> "begin",
                        exc    |-> "none",
                        called |-> {},
                        result |-> "none",
                        value  |-> "none",
                        pre    |-> Depth(current_transaction_map,
                                         Key(InferName(arg), task_id[t]))])]
                /\ delivered' = Nothing
    /\ current_transaction_map' =
          get_connection_map(current_transaction_map, arg, task_id[t], TRUE)
    /\ UNCHANGED <<held, connections, task_id>>

\* the await that hands on a coroutine's result without waiting for it
AwaitedDropsResult(unit, r) ==
    IF unit = "coroutine function"
    THEN [exc |-> "none", value |-> "none"]
    ELSE [exc |-> "TypeError", value |-> "none"]

\* `await func(*args, **kwargs)` when func gives r: a coroutine function
\* gives a coroutine, whose result the await hands on; a plain function has
\* run and returned r itself, which is not awaitable
Awaited(unit, r) ==
    IF unit = "coroutine function"
    THEN [exc |-> "none", value |-> r]
    ELSE [exc |-> "TypeError", value |-> "none"]

\* begin() returns the new transaction handle, which the scope pushes; the
\* unit, a coroutine function, starts to run
BeginDone(t) ==
    /\ InPhase(t, "begin")
    /\ LET f == Last(frames[t])
           h == TransactionHandle(f.name, t, Len(frames[t]))
       IN  /\ current_transaction_map' =
                 push_transaction(current_transaction_map, f.name, task_id[t], h)
           /\ frames' = SetTop(t, [f EXCEPT !.handle = h, !.phase = "body"])
    /\ delivered' = Nothing
    /\ UNCHANGED <<held, connections, task_id>>

\* begin() returns the new transaction handle, which the scope pushes; the
\* unit, a plain function, runs at once and returns r or raises: the scope
\* awaits rollback()
BeginDoneFunction(t, out) ==
    /\ InPhase(t, "begin")
    /\ LET f == Last(frames[t])
           h == TransactionHandle(f.name, t, Len(frames[t]))
       IN  /\ current_transaction_map' =
                 push_transaction(current_transaction_map, f.name, task_id[t], h)
           /\ frames' = SetTop(t,
                 [f EXCEPT !.handle = h,
                           !.phase = "rollback",
                           !.result = IF out \in Results THEN out ELSE "none",
                           !.exc = IF out \in Results
                                   THEN Awaited("function", out).exc
                                   ELSE out,
                           !.called = @ \cup {"rollback"}])
    /\ delivered' = Nothing
    /\ UNCHANGED <<held, connections, task_id>>

\* how the scope is left when `op` has returned or failed: the map becomes
\* `map`, the frame is dropped and the caller sees `exc` raised, or `result`
\* returned when exc is "none"
Leave(t, map, op, exc, result) ==
    /\ current_transaction_map' = map
    /\ frames' = [frames EXCEPT ![t] = Front(@)]
    /\ delivered' = [task |-> t, op |-> op, exc |-> exc, names |-> {},
                     result |-> result]
    /\ UNCHANGED <<held, connections, task_id>>

\* begin() fails: nothing was pushed, the scope is not entered
BeginFail(t, e) ==
    /\ InPhase(t, "begin")
    /\ Leave(t, current_transaction_map, "begin failed", e, "none")

\* the unit of work returns r: the scope awaits commit()
Return(t, r) ==
    /\ InPhase(t, "body")
    /\ LET f == Last(frames[t])
       IN  frames' = SetTop(t,
               [f EXCEPT !.phase = "commit",
                         !.result = r,
                         !.value = Awaited("coroutine function", r).value,
                         !.called = @ \cup {"commit"}])
    /\ delivered' = Nothing
    /\ UNCHANGED <<held, connections, current_transaction_map, task_id>>

\* the unit of work raises e (its own failure, or its cancellation while it
\* is suspended): the scope awaits rollback()
Raise(t, e) ==
    /\ InPhase(t, "body")
    /\ LET f == Last(frames[t])
       IN  frames' = SetTop(t, [f EXCEPT !.phase = "rollback", !.exc = e,
                                         !.called = @ \cup {"rollback"}])
    /\ delivered' = Nothing
    /\ UNCHANGED <<held, connections, current_transaction_map, task_id>>

\* the map after the scope of the task's innermost call has popped
Popped(t) ==
    pop_transaction(current_transaction_map, Last(frames[t]).name,
                    task_id[t]).map

\* commit() returns: pop, and the unit's result goes to the caller
CommitDone(t) ==
    /\ InPhase(t, "commit")
    /\ Leave(t, Popped(t), "commit", "none", Last(frames[t]).value)

\* commit() fails: pop, and the failure goes to the caller
CommitFail(t, e) ==
    /\ InPhase(t, "commit")
    /\ Leave(t, Popped(t), "commit failed", e, "none")

\* rollback() returns: pop, and the unit's failure is raised again
RollbackDone(t) ==
    /\ InPhase(t, "rollback")
    /\ Leave(t, Popped(t), "rollback", Last(frames[t]).exc, "none")

\* rollback() fails: pop, and the failure of rollback() goes to the caller
RollbackFail(t, e) ==
    /\ InPhase(t, "rollback")
    /\ Leave(t, Popped(t), "rollback failed", e, "none")

Next ==
    \/ \E t \in Tasks : CreateTask(t)
    \/ \E t \in Tasks : FinishTask(t)
    \/ \E t \in Tasks, arg \in NameArgs : Call(t, arg)
    \/ \E t \in Tasks : BeginDone(t)
    \/ \E t \in Tasks, e \in HandleFailures : BeginFail(t, e)
    \/ \E t \in Tasks, out \in Results \cup {"WorkFailure"} :
          BeginDoneFunction(t, out)
    \/ \E t \in Tasks, r \in Results : Return(t, r)
    \/ \E t \in Tasks, e \in WorkFailures : Raise(t, e)
    \/ \E t \in Tasks : CommitDone(t)
    \/ \E t \in Tasks, e \in HandleFailures : CommitFail(t, e)
    \/ \E t \in Tasks : RollbackDone(t)
    \/ \E t \in Tasks, e \in HandleFailures : RollbackFail(t, e)

Spec == Init /\ [][Next]_vars

(* ------------------------------------------------------------------ *)
(* The functions of the module called one by one                      *)
(* ------------------------------------------------------------------ *)

\* the number of keys of the map that hold an empty stack
EmptyStacks ==
    Cardinality({k \in DOMAIN current_transaction_map :
                    current_transaction_map[k] = << >>})

\* ctx = in_transaction(connection_name), kept for later: the connection is
\* resolved now, and the scope object made from it
MakeScope(t, arg) ==
    /\ CanRun(t)
    /\ held = NoScope
    /\ OpenCalls < MaxOpen
    /\ LET r == get_connection(arg, task_id[t], TRUE)
       IN  IF r.err # "none"
           THEN /\ delivered' = [task |-> t, op |-> "resolve", exc |-> r.err,
                                 names |-> r.names, result |-> "none"]
                /\ UNCHANGED held
           ELSE /\ held' = [kind  |-> "scope",
                            arg   |-> arg,
                            asked |-> InferName(arg),
                            conn  |-> r.conn]
                /\ delivered' = Nothing
    /\ current_transaction_map' =
          get_connection_map(current_transaction_map, arg, task_id[t], TRUE)
    /\ UNCHANGED <<connections, task_id, frames>>

\* `async with ctx:` on the scope object kept earlier, whose unit is a
\* coroutine: the scope awaits begin() on the connection it was made from
EnterHeld(t) ==
    /\ CanRun(t)
    /\ held # NoScope
    /\ frames' = [frames EXCEPT ![t] = Append(@,
           [arg    |-> held.arg,
            asked  |-> held.asked,
            name   |-> held.conn.name,
            conn   |-> held.conn,
            handle |-> NoHandle,
            phase  |-> "begin",
            exc    |-> "none",
            called |-> {},
            result |-> "none",
            value  |-> "none",
            pre    |-> Depth(current_transaction_map,
                             Key(held.asked, task_id[t]))])]
    /\ held' = NoScope
    /\ delivered' = Nothing
    /\ UNCHANGED <<connections, current_transaction_map, task_id>>

\* pop_transaction(connection_name) called by task t while the stack of the
\* key holds no handle
PopUnmatched(t, n) ==
    /\ CanRun(t)
    /\ n \in connections
    /\ Depth(current_transaction_map, Key(n, task_id[t])) = 0
    /\ EmptyStacks < MaxEmpty
    /\ LET r == pop_transaction(current_transaction_map, n, task_id[t])
       IN  /\ current_transaction_map' = r.map
           /\ delivered' = [task |-> t, op |-> "pop_transaction",
                            exc |-> r.err, names |-> {}, result |-> "none"]
    /\ UNCHANGED <<held, connections, task_id, frames>>

\* programs that also keep scope objects and enter them later
NextHeld ==
    \/ Next
    \/ \E t \in Tasks, arg \in NameArgs : MakeScope(t, arg)
    \/ \E t \in Tasks : EnterHeld(t)

SpecHeld == Init /\ [][NextHeld]_vars

\* programs that also call pop_transaction themselves
NextPop ==
    \/ Next
    \/ \E t \in Tasks, n \in Names : PopUnmatched(t, n)

SpecPop == Init /\ [][NextPop]_vars

(* ------------------------------------------------------------------ *)
(* Vocabulary of the properties                                       *)
(* ------------------------------------------------------------------ *)

LiveTasks == {t \in Tasks : Alive(t)}

\* the scope of frame f has pushed its handle and not yet popped it
Entered(f) == f.phase \in {"body", "commit", "rollback"}

\* the positions of the scopes task t has open on connection name n
OpenScopes(t, n) ==
    {i \in 1..Len(frames[t]) : Entered(frames[t][i]) /\ frames[t][i].asked = n}

\* the (connection name, task) pairs that have a scope open
OpenPairs ==
    {p \in connections \X LiveTasks : OpenScopes(p[2], p[1]) # {}}

\* the key push_transaction and pop_transaction use for frame i of task t
FrameKey(t, i) == Key(frames[t][i].name, task_id[t])

\* the pushes on key k that no pop has matched yet
Unmatched(k) ==
    {p \in Tasks \X (1..(MaxOpen + 2)) :
        /\ Alive(p[1])
        /\ p[2] <= Len(frames[p[1]])
        /\ Entered(frames[p[1]][p[2]])
        /\ FrameKey(p[1], p[2]) = k}

\* every key a live task can build for a connection name
AllKeys == {Key(n, task_id[t]) : n \in Names, t \in LiveTasks}

\* task t leaves the scope of its innermost call in this step
Leaves(t) ==
    /\ frames[t] # << >>
    /\ frames'[t] = Front(frames[t])

(* ------------------------------------------------------------------ *)
(* C10                                                                *)
(* ------------------------------------------------------------------ *)

\* C10: any two distinct (connection name, task) pairs that have a scope
\* open use distinct keys of current_transaction_map.
C10_DistinctPairsDistinctKeys ==
    \A p, q \in OpenPairs :
        p # q => Key(p[1], task_id[p[2]]) # Key(q[1], task_id[q[2]])

(* ------------------------------------------------------------------ *)
(* C7                                                                 *)
(* ------------------------------------------------------------------ *)

\* C7: a key is present in current_transaction_map exactly when it has more
\* pushes than pops, its stack then holds one handle per unmatched push, and
\* no key that is present holds an empty stack.
C7_NoLeakedEntries ==
    \A k \in AllKeys \cup DOMAIN current_transaction_map :
        /\ k \in DOMAIN current_transaction_map <=> Unmatched(k) # {}
        /\ k \in DOMAIN current_transaction_map =>
              /\ current_transaction_map[k] # << >>
              /\ Len(current_transaction_map[k]) = Cardinality(Unmatched(k))

\* a commit has just popped the last handle of the only key in use
C7_Witness ==
    /\ delivered.op = "commit"
    /\ current_transaction_map = << >>

(* ------------------------------------------------------------------ *)
(* C8                                                                 *)
(* ------------------------------------------------------------------ *)

\* get_connection with the name omitted: ParamsError listing the registered
\* names unless exactly one connection is registered, and then what the call
\* with that one name gives
OmittedNameResolution ==
    \A id \in Addrs, running \in BOOLEAN :
        LET r == get_connection(Omitted, id, running)
        IN  IF Cardinality(connections) # 1
            THEN r.err = "ParamsError" /\ r.names = connections
            ELSE /\ r.err = "none"
                 /\ \E n \in connections : r = get_connection(n, id, running)

\* no atomic call made without a name is open (no begin(), no unit running)
\* while the registry is ambiguous
NoScopeWhenAmbiguous ==
    \A t \in Tasks : \A i \in 1..Len(frames[t]) :
        frames[t][i].arg = Omitted => Cardinality(connections) = 1

\* a call that ends with ParamsError opens nothing and changes no stack
ParamsErrorChangesNothing ==
    delivered'.exc = "ParamsError" =>
        /\ delivered'.names = connections
        /\ Cardinality(connections) # 1
        /\ frames' = frames
        /\ current_transaction_map' = current_transaction_map

\* C8: get_connection() without a name fails with ParamsError listing the
\* registered names unless exactly one connection is registered, in which
\* case it resolves that connection; atomic() without a name under an
\* ambiguous registry fails before begin() and before the unit runs, and
\* leaves current_transaction_map unchanged.
C8_Ambiguity ==
    /\ [](OmittedNameResolution /\ NoScopeWhenAmbiguous)
    /\ [][ParamsErrorChangesNothing]_vars

\* atomic() without a name has just failed with two connections registered
C8_Witness ==
    /\ delivered.exc = "ParamsError"
    /\ delivered.names = {"a", "a1"}

(* ------------------------------------------------------------------ *)
(* C1                                                                 *)
(* ------------------------------------------------------------------ *)

\* C1: when two distinct tasks are each inside their own scope on the same
\* connection name, get_connection(name) called by one of them never
\* returns a handle that the other one pushed.
C1_Isolation ==
    \A t1, t2 \in LiveTasks : \A n \in connections :
        (/\ t1 # t2
         /\ CanRun(t1)
         /\ OpenScopes(t1, n) # {}
         /\ OpenScopes(t2, n) # {})
        => LET c == get_connection(n, task_id[t1], TRUE).conn
           IN  c.kind = "txn" => c.by # t2

(* ------------------------------------------------------------------ *)
(* C2                                                                 *)
(* ------------------------------------------------------------------ *)

\* C2: for every (connection name, task) pair, the depth of the pair's stack
\* equals the number of scopes the task has open on that name.
C2_DepthIsOpenScopes ==
    \A t \in LiveTasks : \A n \in connections :
        Depth(current_transaction_map, Key(n, task_id[t]))
            = Cardinality(OpenScopes(t, n))

(* ------------------------------------------------------------------ *)
(* C5                                                                 *)
(* ------------------------------------------------------------------ *)

\* the handle of the innermost scope task t has open on name n, the base
\* connection when it has none
InnermostHandle(t, n) ==
    IF OpenScopes(t, n) = {} THEN BaseConnection(n)
    ELSE LET i == CHOOSE j \in OpenScopes(t, n) :
                      \A k \in OpenScopes(t, n) : k <= j
         IN  frames[t][i].handle

\* C5: within one task, get_connection(name) returns the handle of the
\* innermost scope the task has open on that name, and the base connection
\* when it has none.
C5_NestingIsLifo ==
    \A t \in LiveTasks : \A n \in connections :
        CanRun(t) =>
            get_connection(n, task_id[t], TRUE).conn = InnermostHandle(t, n)

(* ------------------------------------------------------------------ *)
(* C3, C4, C6, C9: how a scope is left                                *)
(* ------------------------------------------------------------------ *)

\* the depth, after the step, of the stack of task t for the name its
\* innermost call was made on
DepthAfter(t) ==
    Depth(current_transaction_map', Key(Last(frames[t]).asked, task_id[t]))

\* C3: when the unit wrapped by atomic(name) raises F (and rollback()
\* returns), the handle has received rollback() and no commit(), the task's
\* stack for the name is back at the depth it had before the call, and F
\* itself reaches the caller.
C3_FailurePropagation ==
    [][\A t \in Tasks :
          (Leaves(t) /\ delivered'.op = "rollback")
          => /\ Last(frames[t]).called = {"rollback"}
             /\ delivered'.exc = Last(frames[t]).exc
             /\ DepthAfter(t) = Last(frames[t]).pre]_vars

\* C4: when a cancellation leaves a scope the task had entered, the pop has
\* been made, rollback() has been called if the unit of work was cancelled,
\* and the task's stack for the name is back at its depth before the scope.
C4_CancellationCleansUp ==
    [][\A t \in Tasks :
          (/\ Leaves(t)
           /\ Entered(Last(frames[t]))
           /\ delivered'.exc = "CancelledError")
          => /\ Last(frames[t]).exc = "CancelledError"
                    => "rollback" \in Last(frames[t]).called
             /\ DepthAfter(t) = Last(frames[t]).pre]_vars

\* C6: after an atomic(name) call made outside any scope on that name has
\* completed successfully, get_connection(name) returns the base connection
\* it returned before the call and the task's stack for the name is as deep
\* as before the call.
C6_RoundTrip ==
    [][\A t \in Tasks :
          (/\ Leaves(t)
           /\ delivered'.op = "commit"
           /\ Last(frames[t]).conn.kind = "base")
          => /\ TopOrBase(current_transaction_map', Last(frames[t]).asked,
                          task_id[t]) = Last(frames[t]).conn
             /\ DepthAfter(t) = Last(frames[t]).pre]_vars

\* the handles on the stack, after the step, of the key the innermost scope
\* of task t pushed on
OnStackAfter(t) ==
    LET k == Key(Last(frames[t]).name, task_id[t])
    IN  IF k \in DOMAIN current_transaction_map'
        THEN {current_transaction_map'[k][i] :
                 i \in 1..Len(current_transaction_map'[k])}
        ELSE {}

\* C9: when commit() or rollback() of the scope's handle fails, the handle
\* is popped all the same, the task's stack for the name is back at its
\* depth before the scope, and the failure of commit() or rollback() reaches
\* the caller.
C9_FailedCommitOrRollbackStillPops ==
    [][\A t \in Tasks :
          (Leaves(t) /\ delivered'.op \in {"commit failed", "rollback failed"})
          => /\ Last(frames[t]).handle \notin OnStackAfter(t)
             /\ DepthAfter(t) = Last(frames[t]).pre
             /\ delivered'.exc \in HandleFailures]_vars

(* ------------------------------------------------------------------ *)
(* C11, C20: what a new task resolves                                 *)
(* ------------------------------------------------------------------ *)

\* task t is created in this step
Created(t) == task_id[t] = 0 /\ task_id'[t] # 0

\* what get_connection(n) returns to task t right after the step
ResolvedAfter(t, n) ==
    TopOrBase(current_transaction_map', n, task_id'[t])

\* C11: a task created after another task has finished never resolves, via
\* get_connection, to a handle that the earlier task pushed: what a new
\* task resolves is never a handle pushed by a task that no longer lives.
C11_NoStaleHandleForNewTask ==
    [][\A t \in Tasks : \A n \in connections :
          (Created(t) /\ ResolvedAfter(t, n).kind = "txn")
              => Alive(ResolvedAfter(t, n).by)]_vars

\* C20: a task created while another task is inside a scope on connection
\* name n has no stack of its own, so get_connection(n) called in the new
\* task returns the base connection.
C20_NoInheritance ==
    [][\A t, u \in Tasks : \A n \in connections :
          (Created(t) /\ u # t /\ OpenScopes(u, n) # {})
              => ResolvedAfter(t, n) = BaseConnection(n)]_vars

(* ------------------------------------------------------------------ *)
(* C12                                                                *)
(* ------------------------------------------------------------------ *)

\* C12: while the event loop is not running, get_connection(name) returns
\* the base connection registered for the name, whatever
\* current_transaction_map holds.
C12_IdleLoopGivesBase ==
    \A n \in connections, id \in Addrs :
        /\ get_connection(n, id, FALSE).err = "none"
        /\ get_connection(n, id, FALSE).conn = BaseConnection(n)

\* some task has a handle stacked for a name: with the loop running the call
\* gives that handle, with the loop idle the base connection
C12_Witness ==
    \E t \in LiveTasks, n \in connections :
        /\ get_connection(n, task_id[t], TRUE).conn.kind = "txn"
        /\ get_connection(n, task_id[t], FALSE).conn = BaseConnection(n)

(* ------------------------------------------------------------------ *)
(* C18                                                                *)
(* ------------------------------------------------------------------ *)

\* get_connection, whatever it is called with, leaves the map as it is
ResolutionKeepsMap ==
    \A arg \in NameArgs, id \in Addrs, running \in BOOLEAN :
        get_connection_map(current_transaction_map, arg, id, running)
            = current_transaction_map

\* a step in which atomic(name) resolves its connection: the call fails, or
\* the task gets a new frame
Resolves(t) ==
    \/ delivered'.op = "resolve" /\ delivered'.task = t
    \/ Len(frames'[t]) = Len(frames[t]) + 1

\* C18: no call of get_connection, whether it returns a stacked handle,
\* falls back to the base connection or fails, adds, removes or changes an
\* entry of current_transaction_map; it creates no empty stack for a key
\* that is absent.
C18_ResolutionIsReadOnly ==
    /\ []ResolutionKeepsMap
    /\ [][\A t \in Tasks :
             Resolves(t) => current_transaction_map' = current_transaction_map]_vars

\* a task has just resolved a name whose key is absent from the map while
\* another key holds a stack, and no entry was made for the absent key
C18_Witness ==
    \E t \in LiveTasks :
        /\ frames[t] # << >>
        /\ Len(frames[t]) = 1
        /\ frames[t][1].phase = "begin"
        /\ Key(frames[t][1].asked, task_id[t]) \notin DOMAIN current_transaction_map
        /\ current_transaction_map # << >>

(* ------------------------------------------------------------------ *)
(* C16                                                                *)
(* ------------------------------------------------------------------ *)

\* the handle of the innermost scope that encloses call i of task t on the
\* name the call was made with, the base connection when no scope does
EnclosingHandle(t, i) ==
    LET n == frames[t][i].asked
        outer == {j \in OpenScopes(t, n) : j < i}
    IN  IF outer = {} THEN BaseConnection(n)
        ELSE frames[t][CHOOSE j \in outer : \A k \in outer : k <= j].handle

\* C16: the connection an atomic call begins on is the handle of the scope
\* of the same task and name that encloses it, and the base connection when
\* the task has no scope open on that name.
C16_NestedBeginTarget ==
    \A t \in Tasks : \A i \in 1..Len(frames[t]) :
        frames[t][i].conn = EnclosingHandle(t, i)

(* ------------------------------------------------------------------ *)
(* C14                                                                *)
(* ------------------------------------------------------------------ *)

\* the stack the map holds for `key`, empty when the key is absent
StackOf(map, key) == IF key \in DOMAIN map THEN map[key] ELSE << >>

\* task t enters (pushes) or leaves (pops) the scope of its innermost call
EntersOrLeaves(t) ==
    /\ frames[t] # << >>
    /\ \/ /\ Last(frames[t]).phase = "begin"
          /\ Len(frames'[t]) = Len(frames[t])
          /\ Last(frames'[t]).phase = "body"
       \/ /\ Entered(Last(frames[t]))
          /\ Leaves(t)

\* C14: within one task, entering or leaving a scope on connection name N
\* leaves the task's stack for every other name M as it was, and
\* get_connection(M) returns the same handle after the step as before it.
C14_IndependentNames ==
    [][\A t \in Tasks : \A m \in connections :
          (EntersOrLeaves(t) /\ m # Last(frames[t]).asked)
              => /\ StackOf(current_transaction_map', Key(m, task_id[t]))
                       = StackOf(current_transaction_map, Key(m, task_id[t]))
                 /\ TopOrBase(current_transaction_map', m, task_id[t])
                       = TopOrBase(current_transaction_map, m, task_id[t])]_vars

(* ------------------------------------------------------------------ *)
(* C13                                                                *)
(* ------------------------------------------------------------------ *)

\* C13: for every wrapped unit of work, a plain function or a coroutine
\* function, that returns r, the wrapper returns r to its caller, commit()
\* has been called on the scope's handle and rollback() has not.
C13_SuccessfulInvocation ==
    [][\A t \in Tasks :
          (Leaves(t) /\ Last(frames[t]).result # "none")
              => /\ delivered'.exc = "none"
                 /\ delivered'.result = Last(frames[t]).result
                 /\ Last(frames[t]).called = {"commit"}]_vars

\* C13 as the code has it: for a coroutine function that returns r, commit()
\* is called and rollback() is not, and the wrapper returns r when commit()
\* returns and raises the failure of commit() when it fails; for a plain
\* function that returns r, the await of r raises TypeError, rollback() is
\* called and commit() is not, and the caller gets a failure.
C13_CoroutineUnitCommits ==
    [][\A t \in Tasks :
          (Leaves(t) /\ Last(frames[t]).result # "none")
              => IF Last(frames[t]).phase = "commit"
                 THEN /\ Last(frames[t]).called = {"commit"}
                      /\ delivered'.op \in {"commit", "commit failed"}
                      /\ delivered'.op = "commit"
                             => /\ delivered'.exc = "none"
                                /\ delivered'.result = Last(frames[t]).result
                      /\ delivered'.op = "commit failed"
                             => delivered'.exc \in HandleFailures
                 ELSE /\ Last(frames[t]).exc = "TypeError"
                      /\ Last(frames[t]).called = {"rollback"}
                      /\ delivered'.exc \in {"TypeError"} \cup HandleFailures]_vars

\* the wrapper has just returned r2, the result of its unit, after commit()
C13_Witness ==
    /\ delivered.op = "commit"
    /\ delivered.exc = "none"
    /\ delivered.result = "r2"

(* ------------------------------------------------------------------ *)
(* C19                                                                *)
(* ------------------------------------------------------------------ *)

\* C19: when begin() fails on entry, that failure reaches the caller, the
\* step pushes nothing and pops nothing, and the task's stack for the name
\* has the depth it had before the attempted entry.
C19_FailedBeginPushesNothing ==
    [][\A t \in Tasks :
          (Leaves(t) /\ Last(frames[t]).phase = "begin")
              => /\ delivered'.op = "begin failed"
                 /\ delivered'.exc \in HandleFailures
                 /\ current_transaction_map' = current_transaction_map
                 /\ DepthAfter(t) = Last(frames[t]).pre]_vars

(* ------------------------------------------------------------------ *)
(* C15                                                                *)
(* ------------------------------------------------------------------ *)

\* task t enters a scope in this step: begin() is called
EntersScope(t) == Len(frames'[t]) = Len(frames[t]) + 1

\* C15: the connection a scope calls begin() on is the one get_connection
\* returns to the entering task at the moment the scope is entered, also
\* when the scope object was obtained from in_transaction(name) earlier or
\* by another task.
C15_ResolutionAtEntry ==
    [][\A t \in Tasks :
          EntersScope(t) =>
              Last(frames'[t]).conn
                  = get_connection(Last(frames'[t]).arg, task_id[t], TRUE).conn]_vars

(* ------------------------------------------------------------------ *)
(* C17                                                                *)
(* ------------------------------------------------------------------ *)

\* C17: pop_transaction called for a key with no unmatched push fails with
\* an error and leaves current_transaction_map as it was before the call:
\* no entry is made for the key.
C17_UnderflowChangesNothing ==
    [][delivered'.op = "pop_transaction" =>
          /\ delivered'.exc # "none"
          /\ current_transaction_map' = current_transaction_map]_vars

=============================================================================
